---- MODULE Spec2Model ----
(***************************************************************************)
(* A model of the grid-art caching engine of Steam Art Manager:            *)
(*   src/src/lib/controllers/CacheController.ts   (CacheController)        *)
(*   src/src/components/core/grids/Grids.svelte   (its UI caller)          *)
(*                                                                         *)
(* Every `await` of the source is a step boundary: an asynchronous call is *)
(* a task whose pc names the await it is suspended at, and the action that *)
(* resumes it runs the code up to the next await (or the return).  The     *)
(* gateway (SGDB client, RustInterop) and the file system are external:    *)
(* what they answer is drawn nondeterministically from small sets.         *)
(***************************************************************************)
EXTENDS Integers, Sequences, FiniteSets, TLC

VARIABLES
  nonSteamGridsCache,      \* Stores.nonSteamGridsCache: id -> type -> page -> SGDBImage[]
  steamGridsCache,         \* Stores.steamGridsCache:    id -> type -> SGDBImage[]
  steamGridSearchCache,    \* Stores.steamGridSearchCache: appid -> SGDBGame[]
  steamGridSteamAppIdMap,  \* Stores.steamGridSteamAppIdMap: appid -> SGDB game id (string)
  selectedSteamGridGameId, \* Stores.selectedSteamGridGameId
  dowloadingGridId,        \* Stores.dowloadingGridId: <<>> is null, <<appId>> otherwise
  gridType,                \* Stores.gridType
  currentPlatform,         \* Stores.currentPlatform
  selectedGameName,        \* Stores.selectedGameName
  fsys,                    \* the paths that exist on disk
  task,                    \* the asynchronous calls: task[t] is one call's frame
  calls,                   \* how many calls were started (bounds the run)
  stored,                  \* history: (id, type, page) -> the list first stored for it
  searched,                \* history: appid -> the candidate list first stored for it
  written,                 \* history: path -> the URL and category of the download that wrote it
  selectedGameAppId,       \* Stores.selectedGameAppId (NoApp is null)
  selectedResultPage,      \* Stores.selectedResultPage
  uiGrids,                 \* Grids.svelte `grids`: the displayed list
  shown,                   \* history: the request whose result is displayed
  isLoading,               \* Grids.svelte `isLoading`
  ctl,                     \* the controller: where init() / destroy() stand
  candidates,              \* the results array given to cacheAllGridsForGame
  runs                     \* history: the finished runs of cacheAllGridsForGame

vars == << nonSteamGridsCache, steamGridsCache, steamGridSearchCache,
           steamGridSteamAppIdMap, selectedSteamGridGameId, dowloadingGridId,
           gridType, currentPlatform, selectedGameName, fsys, task, calls, stored,
           searched, written, selectedGameAppId, selectedResultPage, uiGrids, shown,
           isLoading, ctl, candidates, runs >>

\* Groups of variables, for the UNCHANGED clauses.
inputStores == << gridType, currentPlatform, selectedGameName >>
searchState == << steamGridSearchCache, steamGridSteamAppIdMap,
                 selectedSteamGridGameId, searched >>
diskState == << dowloadingGridId, fsys, written >>
shownState == << selectedGameAppId, selectedResultPage, uiGrids, shown >>
display == << shownState, isLoading >>
discovery == << candidates, runs >>
\* What the calls of the controller's fetch and image operations never assign.
others == << display, ctl, discovery >>

(***************************************************************************)
(* Bounds of the model.                                                    *)
(***************************************************************************)
MaxCalls == 3        \* calls started in one run
MaxPage == 1         \* result pages 0..MaxPage are requested
MaxRuns == 2         \* calls of cacheAllGridsForGame in one run

Tasks == {1, 2}      \* call frames; the sequential specifications use frame 1

(***************************************************************************)
(* The values the environment supplies.                                    *)
(***************************************************************************)
STEAM == "Steam"
NON_STEAM == "Non Steam"
Platforms == {STEAM, NON_STEAM}

\* GridTypes (imported from Stores): the five art categories.
GridTypes == {"Capsule", "Wide Capsule", "Hero", "Logo", "Icon"}
\* The categories the user switches between in the model.
UsedTypes == {"Capsule", "Hero"}

AppIds == {100, 101}                  \* native app ids
GameNames == {"Foo", "Bar"}           \* display names of library entries
Pages == 0 .. MaxPage

\* SGDBGame records as the gateway returns them (no numResultPages yet).
G5 == [id |-> 5, name |-> "Foo"]
G6 == [id |-> 6, name |-> "Bar"]
G7 == [id |-> 7, name |-> "Bar"]
\* What searchGame may answer.
SearchAnswers == { <<>>, <<G5>>, <<G5, G6, G7>> }
\* What getGameBySteamAppId may answer.
LookupAnswers == {G5, G6}
\* Image URLs, as their "/"-separated segments.
ImageUrls == { <<"cdn", "a", "1.png">>, <<"cdn", "b", "1.png">>, <<"cdn", "a", "2.png">> }
\* What a page fetch may answer (SGDBImage lists; an image is its id).
ImageLists == { <<>>, <<"img1">>, <<"img2", "img1">> }

(***************************************************************************)
(* Number.prototype.toString on the ids and pages of the model.            *)
(***************************************************************************)
ToStr(n) ==
  CASE n = 0 -> "0" [] n = 1 -> "1" [] n = 2 -> "2" [] n = 3 -> "3"
    [] n = 5 -> "5" [] n = 6 -> "6" [] n = 7 -> "7"
    [] n = 100 -> "100" [] n = 101 -> "101"

(***************************************************************************)
(* JavaScript objects used as maps: a function whose DOMAIN is the set of  *)
(* own keys.  {} is the function with no key.                              *)
(***************************************************************************)
EmptyObj == [k \in {} |-> {}]
Keys(o) == DOMAIN o
Put(o, k, v) == [x \in DOMAIN o \cup {k} |-> IF x = k THEN v ELSE o[x]]

\* JavaScript truthiness of a string-or-undefined: "" stands for both
\* undefined and the empty string, which are the falsy ones.
Undefined == ""
Truthy(s) == s # ""
\* null in a store of strings (it equals no game's name).
Null == ""
\* null in selectedGameAppId (no library entry has app id 0).
NoApp == 0

\* A call's result: nothing yet, a value, or a raised error.
NoRet == [kind |-> "none", val |-> <<>>]
Ok(v) == [kind |-> "ok", val |-> v]
Raised == [kind |-> "error", val |-> <<>>]

\* History kept in a frame: the state at entry, and what the frame's
\* previous call was and returned.
NoSnapshot ==
  [ grids |-> EmptyObj, steam |-> EmptyObj, search |-> EmptyObj,
    idMap |-> EmptyObj, signal |-> <<>>, fsys |-> {}, written |-> EmptyObj ]
NoLast ==
  [ op |-> "none", appId |-> 0, page |-> 0, sel |-> Undefined,
    type |-> "Capsule", platform |-> STEAM, gameName |-> "",
    url |-> <<>>, ret |-> NoRet, cold |-> FALSE ]

\* A call frame at rest.
IdleTask ==
  [ pc |-> "idle", op |-> "none",
    appId |-> 0, page |-> 0, sel |-> Undefined,        \* the arguments
    type |-> "Capsule", platform |-> STEAM, gameName |-> "", \* stores read at entry
    results |-> <<>>, gameId |-> Undefined, chosen |-> <<>>, \* fetchGrids locals
    id |-> 0, branch |-> "none",                       \* fetchGridsForNonSteamGame
    url |-> <<>>, path |-> <<>>,                       \* getGridImage locals
    ret |-> NoRet,
    nSearch |-> 0, nLookup |-> 0, nFetch |-> 0, nDownload |-> 0, \* gateway calls made
    got |-> <<>>,                                      \* what the gateway answered
    outer |-> "none",                                  \* the caller awaiting the call
    seq |-> 0,                                         \* history: which request it is
    pre |-> NoSnapshot,                                \* history: state at entry
    last |-> NoLast ]                                  \* history: the frame's previous call

Resting(t) == task[t].pc \in {"idle", "done"}

\* The state a call sees at entry (history, read by the properties only).
Snapshot ==
  [ grids |-> nonSteamGridsCache, steam |-> steamGridsCache,
    search |-> steamGridSearchCache, idMap |-> steamGridSteamAppIdMap,
    signal |-> dowloadingGridId, fsys |-> fsys, written |-> written ]

\* All caches are as at startup.
Cold(snap) ==
  snap.grids = EmptyObj /\ snap.search = EmptyObj /\ snap.idMap = EmptyObj

\* What a call remembers of the finished call it repeats.
LastOf(fr) ==
  [ op |-> fr.op, appId |-> fr.appId, page |-> fr.page, sel |-> fr.sel,
    type |-> fr.type, platform |-> fr.platform, gameName |-> fr.gameName,
    url |-> fr.url, ret |-> fr.ret, cold |-> Cold(fr.pre) ]

\* A fresh frame for a call entered now.
NewFrame(op) ==
  [IdleTask EXCEPT !.op = op, !.pre = Snapshot,
                   !.type = gridType, !.platform = currentPlatform,
                   !.gameName = selectedGameName]

\* The caller has taken the result of a finished call: its frame is gone.
Return(t) ==
  /\ task[t].pc = "done"
  /\ task' = [task EXCEPT ![t] = IdleTask]
  /\ UNCHANGED << nonSteamGridsCache, steamGridsCache, others, searchState, diskState,
                  inputStores, calls, stored >>

(***************************************************************************)
(* fetchGridsForNonSteamGame(appId, type, page)  (CacheController.ts       *)
(* 196-228).  Its appId parameter is the SGDB game id.                     *)
(***************************************************************************)
\* Mutant of Branch: the page level is tested with the number, not its string
\* (pages.includes(page)), which never matches an own key.
BranchNumericPage(cache, id, type, page) ==
  IF ToStr(id) \in Keys(cache)
    THEN IF type \in Keys(cache[ToStr(id)]) THEN "page" ELSE "type"
    ELSE "game"

\* The three-level existence check: which branch the call takes.
\*   "hit"  : lines 204-206    "page" : lines 207-212
\*   "type" : lines 213-219    "game" : lines 220-227
Branch(cache, id, type, page) ==
  IF ToStr(id) \in Keys(cache)
    THEN IF type \in Keys(cache[ToStr(id)])
           THEN IF ToStr(page) \in Keys(cache[ToStr(id)][type])
                  THEN "hit"
                  ELSE "page"
           ELSE "type"
    ELSE "game"

HasPage(cache, id, type, page) == Branch(cache, id, type, page) = "hit"
PageOf(cache, id, type, page) == cache[ToStr(id)][type][ToStr(page)]

\* The assignments after the awaited gateway call, per branch.  In branch
\* "page" the statement nonSteamGridsCache[id][type][page] = grids throws a
\* TypeError when the type level is gone by then (CanWriteBack is false).
CanWriteBack(cache, branch, id, type) ==
  /\ branch \in {"page", "type"} => ToStr(id) \in Keys(cache)
  /\ branch = "page" => type \in Keys(cache[ToStr(id)])

\* Mutant of WriteBack: a missing type level resets the whole game entry.
WriteBackResetsGame(cache, branch, id, type, page, grids) ==
  LET gk == ToStr(id)
      pk == ToStr(page)
  IN  CASE branch = "page" ->
             Put(cache, gk, Put(cache[gk], type, Put(cache[gk][type], pk, grids)))
        [] branch \in {"type", "game"} ->
             Put(cache, gk, Put(EmptyObj, type, Put(EmptyObj, pk, grids)))

WriteBack(cache, branch, id, type, page, grids) ==
  LET gk == ToStr(id)
      pk == ToStr(page)
  IN  CASE branch = "page" ->
             Put(cache, gk, Put(cache[gk], type, Put(cache[gk][type], pk, grids)))
        [] branch = "type" ->
             Put(cache, gk, Put(cache[gk], type, Put(EmptyObj, pk, grids)))
        [] branch = "game" ->
             Put(cache, gk, Put(EmptyObj, type, Put(EmptyObj, pk, grids)))

\* The code up to the await: a hit returns at once, a miss issues the
\* gateway call get<Kind>sById(appId, ..., page) and suspends.
EnterGetPage(fr, id, type, page) ==
  LET br == Branch(nonSteamGridsCache, id, type, page)
  IN  IF br = "hit"
        THEN [fr EXCEPT !.pc = "done", !.id = id, !.branch = br,
                        !.ret = Ok(PageOf(nonSteamGridsCache, id, type, page))]
        ELSE [fr EXCEPT !.pc = "page", !.id = id, !.branch = br,
                        !.nFetch = @ + 1]

\* The triple a suspended or finished page fetch is about.
KeyOf(fr) == << fr.id, fr.type, fr.page >>

\* A direct call of fetchGridsForNonSteamGame.
CallGetPage(t, id, type, page) ==
  /\ Resting(t)
  /\ calls < MaxCalls
  /\ calls' = calls + 1
  /\ task' = [task EXCEPT ![t] =
       EnterGetPage([NewFrame("getPage") EXCEPT !.type = type, !.page = page],
                    id, type, page)]
  /\ UNCHANGED << nonSteamGridsCache, steamGridsCache, others, searchState, diskState,
                  inputStores, stored >>

\* Mutant of PageFetchReturns: an empty list is returned without being stored.
PageFetchReturnsEmptyNotStored(t, grids) ==
  LET fr == task[t]
  IN  /\ fr.pc = "page"
      /\ IF grids # <<>> /\ CanWriteBack(nonSteamGridsCache, fr.branch, fr.id, fr.type)
           THEN /\ nonSteamGridsCache' =
                     WriteBack(nonSteamGridsCache, fr.branch, fr.id, fr.type,
                               fr.page, grids)
                /\ stored' = IF KeyOf(fr) \in DOMAIN stored
                               THEN stored
                               ELSE Put(stored, KeyOf(fr), grids)
           ELSE UNCHANGED << nonSteamGridsCache, stored >>
      /\ task' = [task EXCEPT ![t] =
           [fr EXCEPT !.pc = "done", !.ret = Ok(grids), !.got = grids]]
      /\ UNCHANGED << steamGridsCache, others, searchState, diskState, inputStores,
                      calls >>

\* The gateway answers the page fetch: the result is written at the levels
\* that were missing at entry and returned.
PageFetchReturns(t, grids) ==
  LET fr == task[t]
  IN  /\ fr.pc = "page"
      /\ IF CanWriteBack(nonSteamGridsCache, fr.branch, fr.id, fr.type)
           THEN /\ nonSteamGridsCache' =
                     WriteBack(nonSteamGridsCache, fr.branch, fr.id, fr.type,
                               fr.page, grids)
                /\ task' = [task EXCEPT ![t] =
                     [fr EXCEPT !.pc = "done", !.ret = Ok(grids), !.got = grids]]
                /\ stored' = IF KeyOf(fr) \in DOMAIN stored
                               THEN stored
                               ELSE Put(stored, KeyOf(fr), grids)
           ELSE /\ task' = [task EXCEPT ![t] =
                     [fr EXCEPT !.pc = "done", !.ret = Raised, !.got = grids]]
                /\ UNCHANGED << nonSteamGridsCache, stored >>
      /\ UNCHANGED << steamGridsCache, others, searchState, diskState, inputStores, calls >>

\* Mutant of PageFetchRaises: the failure is cached as an empty page.
PageFetchRaisesCached(t) ==
  LET fr == task[t]
  IN  /\ fr.pc = "page"
      /\ CanWriteBack(nonSteamGridsCache, fr.branch, fr.id, fr.type)
      /\ nonSteamGridsCache' =
           WriteBack(nonSteamGridsCache, fr.branch, fr.id, fr.type, fr.page, <<>>)
      /\ task' = [task EXCEPT ![t] = [fr EXCEPT !.pc = "done", !.ret = Raised]]
      /\ UNCHANGED << steamGridsCache, others, searchState, diskState, inputStores,
                      calls, stored >>

\* The gateway call raises: nothing is assigned, the error propagates.
PageFetchRaises(t) ==
  /\ task[t].pc = "page"
  /\ task' = [task EXCEPT ![t] = [@ EXCEPT !.pc = "done", !.ret = Raised]]
  /\ UNCHANGED << nonSteamGridsCache, steamGridsCache, others, searchState, diskState,
                  inputStores, calls, stored >>

(***************************************************************************)
(* cacheAllGridsForGame(results, platform, type)  (CacheController.ts      *)
(* 252-278).  Promise.all runs one walk per game of results; the walk of   *)
(* results[i] is frame i, its numPages is the frame's page.                *)
(***************************************************************************)
\* numResultPages of a game that has none yet (undefined).
NoCount == -1

\* A game as searchGame returns it, as a candidate of the page walk.
Unmarked(game) == [ id |-> game.id, name |-> game.name, numResultPages |-> NoCount ]

\* Some walk of the running call is not finished.
Walking == \E t \in Tasks : task[t].op = "walk"

\* Entry (253-260): every walk starts with numPages = 0 and goes to its first
\* await of fetchGridsForNonSteamGame(game.id, type, 0).
CallCacheAll(results, type) ==
  /\ \A t \in Tasks : task[t].pc = "idle"
  /\ calls < MaxCalls
  /\ calls' = calls + 1
  /\ candidates' = results
  /\ task' = [ t \in Tasks |->
       IF t <= Len(results)
         THEN EnterGetPage([NewFrame("walk") EXCEPT !.type = type, !.outer = "walk"],
                           results[t].id, type, 0)
         ELSE IdleTask ]
  /\ UNCHANGED << nonSteamGridsCache, steamGridsCache, searchState, diskState,
                  inputStores, display, ctl, runs, stored >>

\* Mutant of WalkResumes: an error of the page fetch is not caught.
WalkResumesThrows(t) ==
  LET fr == task[t]
  IN  /\ fr.pc = "done" /\ fr.outer = "walk"
      /\ IF fr.ret.kind = "ok" /\ Len(fr.ret.val) > 0
           THEN /\ task' = [task EXCEPT ![t] =
                     EnterGetPage([fr EXCEPT !.page = @ + 1], fr.id, fr.type, fr.page + 1)]
                /\ UNCHANGED candidates
           ELSE IF fr.ret.kind = "ok"
             THEN /\ task' = [task EXCEPT ![t] = [fr EXCEPT !.pc = "walked"]]
                  /\ candidates' = [candidates EXCEPT ![t].numResultPages = fr.page]
             ELSE /\ task' = [task EXCEPT ![t] = [fr EXCEPT !.pc = "threw"]]
                  /\ UNCHANGED candidates
      /\ UNCHANGED << nonSteamGridsCache, steamGridsCache, searchState, diskState,
                      inputStores, display, ctl, runs, calls, stored >>

\* Mutant of WalkResumes: the page that ended the walk is counted too.
WalkResumesCountsLast(t) ==
  LET fr == task[t]
  IN  /\ fr.pc = "done" /\ fr.outer = "walk"
      /\ IF fr.ret.kind = "ok" /\ Len(fr.ret.val) > 0
           THEN /\ task' = [task EXCEPT ![t] =
                     EnterGetPage([fr EXCEPT !.page = @ + 1], fr.id, fr.type, fr.page + 1)]
                /\ UNCHANGED candidates
           ELSE /\ task' = [task EXCEPT ![t] = [fr EXCEPT !.pc = "walked"]]
                /\ candidates' = [candidates EXCEPT ![t].numResultPages = fr.page + 1]
      /\ UNCHANGED << nonSteamGridsCache, steamGridsCache, searchState, diskState,
                      inputStores, display, ctl, runs, calls, stored >>

\* The awaited fetchGridsForNonSteamGame has settled (260-272): a non-empty
\* list counts a page and fetches the next one; an empty list or an error
\* ends the walk and records numPages on the game.
WalkResumes(t) ==
  LET fr == task[t]
  IN  /\ fr.pc = "done" /\ fr.outer = "walk"
      /\ IF fr.ret.kind = "ok" /\ Len(fr.ret.val) > 0
           THEN /\ task' = [task EXCEPT ![t] =
                     EnterGetPage([fr EXCEPT !.page = @ + 1], fr.id, fr.type, fr.page + 1)]
                /\ UNCHANGED candidates
           ELSE /\ task' = [task EXCEPT ![t] = [fr EXCEPT !.pc = "walked"]]
                /\ candidates' = [candidates EXCEPT ![t].numResultPages = fr.page]
      /\ UNCHANGED << nonSteamGridsCache, steamGridsCache, searchState, diskState,
                      inputStores, display, ctl, runs, calls, stored >>

\* What a finished call leaves in the history.
RunOf(results) ==
  [ ids |-> [ i \in 1 .. Len(results) |-> results[i].id ],
    type |-> task[1].type,
    counts |-> [ i \in 1 .. Len(results) |-> results[i].numResultPages ],
    fetches |-> [ i \in 1 .. Len(results) |-> task[i].nFetch ],
    failed |-> [ i \in 1 .. Len(results) |-> task[i].ret.kind = "error" ] ]

\* Promise.all resolves when every walk has ended; the call returns (275-278).
CacheAllReturns ==
  /\ Walking
  /\ \A t \in 1 .. Len(candidates) : task[t].pc = "walked"
  /\ runs' = Append(runs, RunOf(candidates))
  /\ task' = [ t \in Tasks |-> IdleTask ]
  /\ UNCHANGED << nonSteamGridsCache, steamGridsCache, searchState, diskState,
                  inputStores, display, ctl, candidates, calls, stored >>

(***************************************************************************)
(* fetchGrids(appId, page, selectedSteamGridId)  (CacheController.ts       *)
(* 288-350).                                                               *)
(***************************************************************************)
\* getNumPages (238-243): every game of the list gets numResultPages = 1.
getNumPages(results) ==
  [ i \in 1 .. Len(results) |->
      [ id |-> results[i].id, name |-> results[i].name, numResultPages |-> 1 ] ]

\* Mutant of SearchMiss: an empty candidate list counts as missing.
SearchMissOrEmpty(searchCache, appId) ==
  \/ ToStr(appId) \notin Keys(searchCache)
  \/ searchCache[ToStr(appId)] = <<>>

\* !results (299, 331): the search cache has no list for the app.
SearchMiss(searchCache, appId) == ToStr(appId) \notin Keys(searchCache)

\* Mutant of IdentityMiss: the identity map is never consulted.
IdentityNeverCached(idMap, appId) == TRUE

\* !gameId (308): the identity map has no provider id for the app.
IdentityMiss(idMap, appId) == ToStr(appId) \notin Keys(idMap)

\* Array.prototype.find, given the indices whose element passes the test:
\* the first such element, <<>> (undefined) if there is none.
Find(results, passing) ==
  IF passing = {} THEN <<>>
  ELSE << results[CHOOSE i \in passing : \A j \in passing : i <= j] >>

\* Mutant of ChooseResult: the first candidate is always taken.
ChooseFirstCandidate(platform, sel, results, gameId, gameName) ==
  IF Len(results) > 0 THEN << results[1] >> ELSE <<>>

\* Mutant of ChooseResult: the non-Steam branch compares ids like the Steam
\* branch (the name is ignored).
ChooseNameIgnored(platform, sel, results, gameId, gameName) ==
  LET ById == { i \in 1 .. Len(results) : ToStr(results[i].id) = sel }
      ByGameId == { i \in 1 .. Len(results) : ToStr(results[i].id) = gameId }
      found == IF Truthy(sel) THEN Find(results, ById)
               ELSE Find(results, ByGameId)
  IN  IF found = <<>> /\ Len(results) > 0 THEN << results[1] >> ELSE found

\* choosenResult (314-315, 338-339).
ChooseResult(platform, sel, results, gameId, gameName) ==
  LET ById == { i \in 1 .. Len(results) : ToStr(results[i].id) = sel }
      ByGameId == { i \in 1 .. Len(results) : ToStr(results[i].id) = gameId }
      ByName == { i \in 1 .. Len(results) : results[i].name = gameName }
      found == IF Truthy(sel) THEN Find(results, ById)
               ELSE IF platform = STEAM THEN Find(results, ByGameId)
               ELSE Find(results, ByName)
  IN  IF found = <<>> /\ Len(results) > 0 THEN << results[1] >> ELSE found

\* The synchronous stretches of fetchGrids work on st: the frame and the
\* stores they assign.  st.published: steamGridSearchCache.set was called
\* (319, 343), which runs the store's subscribers.
\* Lines 314-324 and 338-348: choose, publish the selection, fetch the page.
Resolve(st) ==
  LET fr == st.fr
      c == ChooseResult(fr.platform, fr.sel, fr.results, fr.gameId, fr.gameName)
  IN  IF c # <<>> /\ c[1].id # 0
        THEN [st EXCEPT !.selected = ToStr(c[1].id), !.published = TRUE,
                        !.fr = EnterGetPage([fr EXCEPT !.chosen = c],
                                            c[1].id, fr.type, fr.page)]
        ELSE [st EXCEPT !.fr = [fr EXCEPT !.pc = "done", !.chosen = c,
                                          !.ret = Ok(<<>>)]]

\* Lines 306-312 (Steam only): the provider id of the app, from the identity
\* map or by issuing getGameBySteamAppId.
Identify(st) ==
  IF st.fr.platform = STEAM
    THEN IF IdentityMiss(st.idMap, st.fr.appId)
           THEN [st EXCEPT !.fr = [st.fr EXCEPT !.pc = "lookup", !.nLookup = @ + 1]]
           ELSE Resolve([st EXCEPT !.fr =
                  [st.fr EXCEPT !.gameId = st.idMap[ToStr(st.fr.appId)]]])
    ELSE Resolve(st)

\* The stores as a synchronous stretch finds them.
Stores(fr) ==
  [ fr |-> fr, search |-> steamGridSearchCache, idMap |-> steamGridSteamAppIdMap,
    selected |-> selectedSteamGridGameId, published |-> FALSE ]

\* ... and as it leaves them.  The steamGridSearchCache subscriber of the
\* grids view (Grids.svelte 126-130) runs inside the set call; it ends with
\* isLoading = false.  loading is isLoading as the stretch found it.
Commit(t, st, loading) ==
  /\ task' = [task EXCEPT ![t] = st.fr]
  /\ steamGridSearchCache' = st.search
  /\ steamGridSteamAppIdMap' = st.idMap
  /\ selectedSteamGridGameId' = st.selected
  /\ isLoading' = IF st.published THEN FALSE ELSE loading

\* Entry: lines 289-300 (or 326-332), then on if the candidates are cached.
EnterFetchGrids(fr) ==
  IF SearchMiss(steamGridSearchCache, fr.appId)
    THEN Stores([fr EXCEPT !.pc = "search", !.nSearch = @ + 1])
    ELSE Identify(Stores([fr EXCEPT !.results = steamGridSearchCache[ToStr(fr.appId)]]))

\* A call of fetchGrids by a caller that is not modelled further.
CallFetchGrids(t, appId, page, sel) ==
  LET old == task[t]
      repeats == /\ old.pc = "done" /\ old.op = "fetchGrids"
                 /\ old.appId = appId /\ old.page = page /\ old.sel = sel
      fr == [NewFrame("fetchGrids") EXCEPT
               !.appId = appId, !.page = page, !.sel = sel,
               !.last = IF repeats THEN LastOf(old) ELSE NoLast]
  IN  /\ Resting(t)
      /\ calls < MaxCalls
      /\ calls' = calls + 1
      /\ Commit(t, EnterFetchGrids(fr), isLoading)
      /\ UNCHANGED << nonSteamGridsCache, steamGridsCache, shownState, ctl, discovery,
                      diskState, inputStores, stored, searched >>

\* searchGame answers; getNumPages is called and marks the games (300-301).
SearchReturns(t, answer) ==
  /\ task[t].pc = "search"
  /\ task' = [task EXCEPT ![t] =
       [@ EXCEPT !.pc = "numPages", !.results = getNumPages(answer)]]
  /\ UNCHANGED << nonSteamGridsCache, steamGridsCache, others, searchState, diskState,
                  inputStores, calls, stored >>

\* searchGame raises: the error propagates.
SearchRaises(t) ==
  /\ task[t].pc = "search"
  /\ task' = [task EXCEPT ![t] = [@ EXCEPT !.pc = "done", !.ret = Raised]]
  /\ UNCHANGED << nonSteamGridsCache, steamGridsCache, others, searchState, diskState,
                  inputStores, calls, stored >>

\* After await getNumPages: the list is put in the search cache (303, 335).
NumPagesReturns(t) ==
  LET fr == task[t]
      st == Stores(fr)
      k == ToStr(fr.appId)
  IN  /\ fr.pc = "numPages"
      /\ Commit(t, Identify([st EXCEPT !.search = Put(st.search, k, fr.results)]),
                isLoading)
      /\ searched' = IF k \in DOMAIN searched THEN searched
                     ELSE Put(searched, k, fr.results)
      /\ UNCHANGED << nonSteamGridsCache, steamGridsCache, shownState, ctl, discovery,
                      diskState, inputStores, calls, stored >>

\* getGameBySteamAppId answers a game (309-311).
LookupReturns(t, game) ==
  LET fr == task[t]
      st == Stores(fr)
      gameId == ToStr(game.id)
  IN  /\ fr.pc = "lookup"
      /\ Commit(t, Resolve([st EXCEPT
           !.idMap = Put(st.idMap, ToStr(fr.appId), gameId),
           !.fr = [fr EXCEPT !.gameId = gameId]]), isLoading)
      /\ UNCHANGED << nonSteamGridsCache, steamGridsCache, shownState, ctl, discovery,
                      diskState, inputStores, calls, stored, searched >>

\* getGameBySteamAppId finds no game: the call rejects, or resolves to
\* nothing and gameInfo.id throws (309-310).  The error propagates.
LookupFails(t) ==
  /\ task[t].pc = "lookup"
  /\ task' = [task EXCEPT ![t] = [@ EXCEPT !.pc = "done", !.ret = Raised]]
  /\ UNCHANGED << nonSteamGridsCache, steamGridsCache, others, searchState, diskState,
                  inputStores, calls, stored >>

(***************************************************************************)
(* Grids.svelte: the store subscribers of onMount (141-181) and            *)
(* filterGridsOnStateChange (118-123).  The component is online with an    *)
(* API key, so the guard of line 119 depends on the selected app only.     *)
(* AppController.getSteamGridArt hands its arguments to fetchGrids.        *)
(***************************************************************************)
\* The display name of a library entry.
NameOf(appId) == IF appId = 100 THEN "Foo" ELSE "Bar"

\* numPages as setAvailableSgdbGamesOnStateChange derives it (105): the
\* numResultPages of the candidate whose id is $selectedSteamGridGameId, 3
\* when there is no such candidate (?? 3).
UiNumPages(searchCache, selectedAppId, selectedId) ==
  LET results == searchCache[ToStr(selectedAppId)]
      ById == { i \in 1 .. Len(results) : ToStr(results[i].id) = selectedId }
      found == Find(results, ById)
  IN  IF found = <<>> THEN 3 ELSE found[1].numResultPages

\* A subscriber sets isLoading = true and calls filterGridsOnStateChange,
\* which runs to its await (119-120): the request is a fetchGrids call whose
\* third argument is $selectedSteamGridGameId.
UiRequest(t, appId, page, gameName) ==
  /\ task[t].pc = "idle"
  /\ calls < MaxCalls
  /\ calls' = calls + 1
  /\ Commit(t, EnterFetchGrids(
       [NewFrame("fetchGrids") EXCEPT
          !.appId = appId, !.page = page, !.sel = selectedSteamGridGameId,
          !.gameName = gameName, !.outer = "ui", !.seq = calls + 1]),
       TRUE)

\* The user picks a library entry: its name and app id are stored and the
\* selectedGameAppId subscriber (141-143) starts a request.
SelectGame(t, appId) ==
  /\ appId # selectedGameAppId
  /\ UiRequest(t, appId, selectedResultPage, NameOf(appId))
  /\ selectedGameAppId' = appId
  /\ selectedGameName' = NameOf(appId)
  /\ UNCHANGED << nonSteamGridsCache, steamGridsCache, diskState, gridType,
                  currentPlatform, selectedResultPage, uiGrids, shown, ctl,
                  discovery, stored, searched >>

\* The user picks a result page: the selectedResultPage subscriber (154-156)
\* starts a request when an app is selected.
SelectPage(t, page) ==
  /\ page # selectedResultPage
  /\ selectedGameAppId # NoApp
  /\ UiRequest(t, selectedGameAppId, page, selectedGameName)
  /\ selectedResultPage' = page
  /\ UNCHANGED << nonSteamGridsCache, steamGridsCache, diskState, inputStores,
                  selectedGameAppId, uiGrids, shown, ctl, discovery, stored,
                  searched >>

\* getSteamGridArt has resolved: the list is filtered and assigned to grids
\* (120-121); the entry of uiGrids stands for filterGrids(list, type, ...).
\* The subscriber goes on to isLoading = false (147, 157).  When the request
\* has rejected, the subscriber ends with the error at its await.
UiShow(t) ==
  LET fr == task[t]
  IN  /\ fr.pc = "done" /\ fr.outer = "ui"
      /\ IF fr.ret.kind = "ok"
           THEN /\ uiGrids' = << fr.ret.val, fr.type >>
                /\ shown' = [ key |-> << fr.appId, fr.type, fr.page >>,
                              seq |-> fr.seq ]
                /\ isLoading' = FALSE
           ELSE UNCHANGED << uiGrids, shown, isLoading >>
      /\ task' = [task EXCEPT ![t] = IdleTask]
      /\ UNCHANGED << nonSteamGridsCache, steamGridsCache, searchState, diskState,
                      inputStores, selectedGameAppId, selectedResultPage, ctl,
                      discovery, calls, stored >>

(***************************************************************************)
(* The file system layout init() creates (CacheController.ts 49-106).      *)
(***************************************************************************)
appCacheDirPath == << "appcache" >>
gridCacheDirPath == appCacheDirPath \o << "grids" >>
Layout ==
  {appCacheDirPath, gridCacheDirPath} \cup { gridCacheDirPath \o <<ty>> : ty \in GridTypes }

(***************************************************************************)
(* getGridImage(appId, imageURL)  (CacheController.ts 126-156).            *)
(***************************************************************************)
\* Mutant of FileName: the segment before the last one is taken.
FileNameOneBefore(url) == url[Len(url) - 1]

\* imageURL.substring(imageURL.lastIndexOf("/") + 1): the text after the last
\* "/", which is the last segment (the whole URL when it has no "/").
FileName(url) == url[Len(url)]

\* path.join: the segments in order, empty ones dropped.
Join(dir, names) == dir \o SelectSeq(names, LAMBDA n : n # "")

\* The directory a path lies in.
Parent(p) == SubSeq(p, 1, Len(p) - 1)

\* Entry (127-129): the file name is cut from the URL, gridType is read and
\* path.join is awaited.
CallGetGridImage(t, appId, url) ==
  /\ Resting(t)
  /\ calls < MaxCalls
  /\ calls' = calls + 1
  /\ task' = [task EXCEPT ![t] =
       [NewFrame("getGridImage") EXCEPT !.pc = "join", !.appId = appId, !.url = url]]
  /\ UNCHANGED << nonSteamGridsCache, steamGridsCache, others, searchState, diskState,
                  inputStores, stored >>

\* path.join answers; fs.exists is awaited (129-131).
JoinReturns(t) ==
  LET fr == task[t]
  IN  /\ fr.pc = "join"
      /\ task' = [task EXCEPT ![t] =
           [fr EXCEPT !.pc = "exists",
                      !.path = Join(gridCacheDirPath, << fr.type, FileName(fr.url) >>)]]
      /\ UNCHANGED << nonSteamGridsCache, steamGridsCache, others, searchState, diskState,
                      inputStores, calls, stored >>

\* Mutant of ExistsReturns: the download is started whatever fs.exists says.
ExistsReturnsIgnored(t) ==
  LET fr == task[t]
  IN  /\ fr.pc = "exists"
      /\ dowloadingGridId' = << fr.appId >>
      /\ task' = [task EXCEPT ![t] =
           [fr EXCEPT !.pc = "download", !.nDownload = @ + 1]]
      /\ UNCHANGED << nonSteamGridsCache, steamGridsCache, others, searchState, fsys, written,
                      inputStores, calls, stored >>

\* fs.exists answers (131-135, 151-155): a file that is there is returned; for
\* one that is not, the signal is set and RustInterop.downloadGrid awaited.
ExistsReturns(t) ==
  LET fr == task[t]
  IN  /\ fr.pc = "exists"
      /\ IF fr.path \in fsys
           THEN /\ task' = [task EXCEPT ![t] =
                     [fr EXCEPT !.pc = "done", !.ret = Ok(fr.path)]]
                /\ UNCHANGED dowloadingGridId
           ELSE /\ dowloadingGridId' = << fr.appId >>
                /\ task' = [task EXCEPT ![t] =
                     [fr EXCEPT !.pc = "download", !.nDownload = @ + 1]]
      /\ UNCHANGED << nonSteamGridsCache, steamGridsCache, others, searchState, fsys, written,
                      inputStores, calls, stored >>

\* downloadGrid answers true (the file was written) or false (it was not);
\* either way the signal is cleared and the path returned (135-155).
DownloadReturns(t, success) ==
  LET fr == task[t]
  IN  /\ fr.pc = "download"
      /\ success => Parent(fr.path) \in fsys
      /\ fsys' = IF success THEN fsys \cup {fr.path} ELSE fsys
      /\ written' = IF success
                      THEN Put(written, fr.path, [url |-> fr.url, type |-> fr.type])
                      ELSE written
      /\ dowloadingGridId' = <<>>
      /\ task' = [task EXCEPT ![t] =
           [fr EXCEPT !.pc = "done", !.ret = Ok(fr.path),
                      !.got = << IF success THEN "written" ELSE "failed" >>]]
      /\ UNCHANGED << nonSteamGridsCache, steamGridsCache, others, searchState,
                      inputStores, calls, stored >>

\* downloadGrid rejects: the await throws out of getGridImage (135).
DownloadRaises(t) ==
  /\ task[t].pc = "download"
  /\ task' = [task EXCEPT ![t] =
       [@ EXCEPT !.pc = "done", !.ret = Raised, !.got = << "raised" >>]]
  /\ UNCHANGED << nonSteamGridsCache, steamGridsCache, others, searchState, diskState,
                  inputStores, calls, stored >>

(***************************************************************************)
(* init() (49-119), invalidateCache() (356-360) and destroy() (366-371).   *)
(* ctl.n counts the directories init() has come to: 0 is the app cache     *)
(* directory, 1 the grids directory, 2..6 the five art categories.         *)
(***************************************************************************)
\* The order in which init() ensures the category directories (68-106).
TypeOrder == << "Capsule", "Wide Capsule", "Hero", "Logo", "Icon" >>

\* No controller: its fields are undefined.
NoCtl ==
  [ pc |-> "none", appCacheDirPath |-> <<>>, gridCacheDirPath |-> <<>>,
    n |-> 0, dir |-> <<>>,
    subscribed |-> FALSE,        \* apiKeyUnsub is set and the subscription live
    threw |-> FALSE,             \* history: a destroy() ended with an error
    cleared |-> FALSE ]          \* history: an invalidateCache has completed

\* fs.removeDir(dir, { recursive: true }): dir and all below it are gone.
Under(dir, p) == Len(p) >= Len(dir) /\ SubSeq(p, 1, Len(dir)) = dir
Removed(files, dir) == { p \in files : ~Under(dir, p) }

\* A directory is in place: on to the next one, or to the end of init(),
\* where the key store is subscribed to (108-118).
AfterEnsured(c) ==
  IF c.n < Len(TypeOrder) + 1
    THEN [c EXCEPT !.pc = "join"]
    ELSE [c EXCEPT !.pc = "ready", !.n = 0, !.dir = <<>>, !.subscribed = TRUE]

\* new CacheController(): init() runs to await appCacheDir() (41-52).  The
\* stores of the new session are at their initial values.
Construct ==
  /\ ctl.pc \in {"none", "destroyed"}
  /\ \A t \in Tasks : task[t].pc = "idle"
  /\ ctl' = [NoCtl EXCEPT !.pc = "appCacheDir", !.cleared = ctl.cleared]
  /\ dowloadingGridId' = <<>>
  /\ UNCHANGED << nonSteamGridsCache, steamGridsCache, searchState, fsys, written,
                  inputStores, display, discovery, task, calls, stored >>

\* appCacheDir() answers; fs.exists is awaited for it (52-53).
AppCacheDirReturns ==
  /\ ctl.pc = "appCacheDir"
  /\ ctl' = [ctl EXCEPT !.pc = "exists", !.appCacheDirPath = appCacheDirPath,
                        !.dir = appCacheDirPath]
  /\ UNCHANGED << nonSteamGridsCache, steamGridsCache, searchState, diskState,
                  inputStores, display, discovery, task, calls, stored >>

\* path.join answers the next directory; fs.exists is awaited for it
\* (60-61, 68-69, 76-77, 84-85, 92-93, 100-101).
JoinDirReturns ==
  LET k == ctl.n + 1
      d == IF k = 1 THEN Join(ctl.appCacheDirPath, << "grids" >>)
           ELSE Join(ctl.gridCacheDirPath, << TypeOrder[k - 1] >>)
  IN  /\ ctl.pc = "join"
      /\ ctl' = [ctl EXCEPT !.pc = "exists", !.n = k, !.dir = d,
                            !.gridCacheDirPath = IF k = 1 THEN d ELSE @]
      /\ UNCHANGED << nonSteamGridsCache, steamGridsCache, searchState, diskState,
                      inputStores, display, discovery, task, calls, stored >>

\* fs.exists answers: a missing directory is created, an existing one kept.
ExistsDirReturns ==
  /\ ctl.pc = "exists"
  /\ ctl' = IF ctl.dir \in fsys THEN AfterEnsured(ctl)
            ELSE [ctl EXCEPT !.pc = "createDir"]
  /\ UNCHANGED << nonSteamGridsCache, steamGridsCache, searchState, diskState,
                  inputStores, display, discovery, task, calls, stored >>

\* fs.createDir answers: the directory is there.
CreateDirReturns ==
  /\ ctl.pc = "createDir"
  /\ Parent(ctl.dir) = <<>> \/ Parent(ctl.dir) \in fsys
  /\ fsys' = fsys \cup {ctl.dir}
  /\ ctl' = AfterEnsured(ctl)
  /\ UNCHANGED << nonSteamGridsCache, steamGridsCache, searchState,
                  dowloadingGridId, written, inputStores, display, discovery,
                  task, calls, stored >>

\* destroy(): the key subscription ends and invalidateCache() awaits
\* fs.removeDir(gridCacheDirPath, { recursive: true }) (366-369, 356-358).
Destroy ==
  /\ ctl.pc = "ready"
  /\ ctl' = [ctl EXCEPT !.pc = "removeDir", !.subscribed = FALSE]
  /\ UNCHANGED << nonSteamGridsCache, steamGridsCache, searchState, diskState,
                  inputStores, display, discovery, task, calls, stored >>

\* destroy() called while init() is suspended at one of its awaits:
\* apiKeyUnsub is assigned at the end of init() only (108), so the call
\* this.apiKeyUnsub() throws a TypeError (368) and destroy() rejects before
\* invalidateCache() is reached.  init() goes on.
DestroyEarly ==
  /\ ctl.pc \in {"appCacheDir", "exists", "createDir", "join"}
  /\ ~ctl.threw
  /\ ctl' = [ctl EXCEPT !.threw = TRUE]
  /\ UNCHANGED << nonSteamGridsCache, steamGridsCache, searchState, diskState,
                  inputStores, display, discovery, task, calls, stored >>

\* Mutant of RemoveDirReturns: the directory is removed without its contents.
RemoveDirShallow ==
  /\ ctl.pc = "removeDir"
  /\ ctl.gridCacheDirPath \in fsys
  /\ fsys' = fsys \ {ctl.gridCacheDirPath}
  /\ written' = written
  /\ ctl' = [ctl EXCEPT !.pc = "destroyed", !.cleared = TRUE]
  /\ UNCHANGED << nonSteamGridsCache, steamGridsCache, searchState,
                  dowloadingGridId, inputStores, display, discovery, task, calls,
                  stored >>

\* fs.removeDir answers: the grids directory is gone with all below it, and
\* destroy() ends (358-360, 369-370).
RemoveDirReturns ==
  /\ ctl.pc = "removeDir"
  /\ ctl.gridCacheDirPath \in fsys
  /\ fsys' = Removed(fsys, ctl.gridCacheDirPath)
  /\ written' = [ p \in Removed(DOMAIN written, ctl.gridCacheDirPath) |-> written[p] ]
  /\ ctl' = [ctl EXCEPT !.pc = "destroyed", !.cleared = TRUE]
  /\ UNCHANGED << nonSteamGridsCache, steamGridsCache, searchState,
                  dowloadingGridId, inputStores, display, discovery, task, calls,
                  stored >>

(***************************************************************************)
(* The stores the calls read at entry, as the user changes them.           *)
(***************************************************************************)
SetGridType(ty) ==
  /\ \A t \in Tasks : task[t].pc = "idle"
  /\ calls < MaxCalls
  /\ ty # gridType
  /\ gridType' = ty
  /\ UNCHANGED << nonSteamGridsCache, steamGridsCache, others, searchState, diskState,
                  currentPlatform, selectedGameName, task, calls, stored >>

SetPlatform(pf) ==
  /\ \A t \in Tasks : task[t].pc = "idle"
  /\ calls < MaxCalls
  /\ pf # currentPlatform
  /\ currentPlatform' = pf
  /\ UNCHANGED << nonSteamGridsCache, steamGridsCache, others, searchState, diskState,
                  gridType, selectedGameName, task, calls, stored >>

SetGameName(name) ==
  /\ \A t \in Tasks : task[t].pc = "idle"
  /\ calls < MaxCalls
  /\ name # selectedGameName
  /\ selectedGameName' = name
  /\ UNCHANGED << nonSteamGridsCache, steamGridsCache, others, searchState, diskState,
                  gridType, currentPlatform, task, calls, stored >>

\* Nothing has been assigned to the displayed list yet.
NoneShown == [ key |-> <<>>, seq |-> 0 ]

\* The controller once init() has run to its end: both directory fields set.
ReadyCtl ==
  [ NoCtl EXCEPT !.pc = "ready", !.appCacheDirPath = appCacheDirPath,
                 !.gridCacheDirPath = gridCacheDirPath, !.subscribed = TRUE ]

\* The state once the constructor's init() has run to its end.
InitReady ==
  /\ nonSteamGridsCache = EmptyObj
  /\ steamGridsCache = EmptyObj
  /\ steamGridSearchCache = EmptyObj
  /\ steamGridSteamAppIdMap = EmptyObj
  /\ selectedSteamGridGameId = "None"
  /\ dowloadingGridId = <<>>
  /\ gridType = "Capsule"
  /\ currentPlatform = STEAM
  /\ selectedGameName = Null
  /\ fsys = Layout
  /\ task = [t \in Tasks |-> IdleTask]
  /\ calls = 0
  /\ stored = EmptyObj
  /\ searched = EmptyObj
  /\ written = EmptyObj
  /\ selectedGameAppId = NoApp
  /\ selectedResultPage = 0
  /\ uiGrids = <<>>
  /\ shown = NoneShown
  /\ isLoading = FALSE
  /\ ctl = ReadyCtl
  /\ candidates = <<>>
  /\ runs = <<>>

(***************************************************************************)
(* SpecPage: non-overlapping direct calls of fetchGridsForNonSteamGame.    *)
(***************************************************************************)
PageIds == {5, 6}

NextPage ==
  \/ \E id \in PageIds, ty \in UsedTypes, pg \in Pages : CallGetPage(1, id, ty, pg)
  \/ \E grids \in ImageLists : PageFetchReturns(1, grids)
  \/ PageFetchRaises(1)
  \/ Return(1)

SpecPage == InitReady /\ [][NextPage]_vars

(***************************************************************************)
(* SpecGrids: non-overlapping fetchGrids calls between which the user      *)
(* changes platform, game and art category.                                *)
(***************************************************************************)
Selections == {Undefined, "6"}      \* selectedSteamGridId: none, or game 6
GridsPages == {0, 1}
GridsAnswers == { <<>>, <<"img1">> }

NextGrids ==
  \/ \E appId \in AppIds, pg \in GridsPages, sel \in Selections :
       CallFetchGrids(1, appId, pg, sel)
  \/ \E answer \in SearchAnswers : SearchReturns(1, answer)
  \/ SearchRaises(1)
  \/ NumPagesReturns(1)
  \/ \E game \in LookupAnswers : LookupReturns(1, game)
  \/ LookupFails(1)
  \/ \E grids \in GridsAnswers : PageFetchReturns(1, grids)
  \/ PageFetchRaises(1)
  \/ Return(1)
  \/ \E pf \in Platforms : SetPlatform(pf)
  \/ \E name \in GameNames : SetGameName(name)

SpecGrids == InitReady /\ [][NextGrids]_vars

(***************************************************************************)
(* Properties of fetchGridsForNonSteamGame.                                *)
(***************************************************************************)
AllIds == {5, 6, 7}

\* Whether the grid cache holds a list for the triple, read off the object
\* itself (not through the code's check).
InCache(cache, k) ==
  /\ ToStr(k[1]) \in DOMAIN cache
  /\ k[2] \in DOMAIN cache[ToStr(k[1])]
  /\ ToStr(k[3]) \in DOMAIN cache[ToStr(k[1])][k[2]]
Cached(cache, k) == cache[ToStr(k[1])][k[2]][ToStr(k[3])]

\* C1: a completed fetchGridsForNonSteamGame call for a triple that was not in
\* the grid cache made exactly one gateway page fetch and stored the returned
\* list under the triple; the stored list stays, and a later (non-overlapping)
\* call for the same triple makes no gateway fetch and returns that list,
\* whichever level was missing on the first call.
C1_GetPageFetchesOnce ==
  /\ \A k \in DOMAIN stored :
       InCache(nonSteamGridsCache, k) /\ Cached(nonSteamGridsCache, k) = stored[k]
  /\ \A t \in Tasks :
       LET fr == task[t]
       IN  (fr.op = "getPage" /\ fr.pc = "done") =>
             IF InCache(fr.pre.grids, KeyOf(fr))
               THEN /\ fr.nFetch = 0
                    /\ KeyOf(fr) \in DOMAIN stored
                    /\ fr.ret = Ok(stored[KeyOf(fr)])
               ELSE fr.ret.kind = "ok" =>
                      /\ fr.nFetch = 1
                      /\ fr.ret.val = fr.got
                      /\ InCache(nonSteamGridsCache, KeyOf(fr))
                      /\ Cached(nonSteamGridsCache, KeyOf(fr)) = fr.got

\* A later call was served from the cache with a non-empty list.
C1_Witness ==
  \E t \in Tasks :
    /\ task[t].op = "getPage" /\ task[t].pc = "done"
    /\ InCache(task[t].pre.grids, KeyOf(task[t]))
    /\ task[t].nFetch = 0
    /\ task[t].ret.kind = "ok" /\ task[t].ret.val # <<>>

\* C7: failures are never cached.  A fetchGridsForNonSteamGame call whose
\* gateway fetch raised ends with the error and leaves the grid cache as it was
\* at entry, without the triple; every page entry of the grid cache is the
\* list of a gateway fetch that completed; and a call entered without the
\* triple in the cache issues the gateway fetch (again).
C7_FailuresNotCached ==
  /\ \A t \in Tasks :
       LET fr == task[t]
       IN  fr.op = "getPage" =>
             /\ (fr.pc = "done" /\ fr.ret.kind = "error") =>
                  /\ nonSteamGridsCache = fr.pre.grids
                  /\ ~InCache(nonSteamGridsCache, KeyOf(fr))
             /\ ~InCache(fr.pre.grids, KeyOf(fr)) => fr.nFetch = 1
  /\ \A id \in AllIds, ty \in GridTypes, pg \in Pages :
       InCache(nonSteamGridsCache, <<id, ty, pg>>) =>
         /\ <<id, ty, pg>> \in DOMAIN stored
         /\ Cached(nonSteamGridsCache, <<id, ty, pg>>) = stored[<<id, ty, pg>>]

\* A fetch failed on a cache that already held entries.
C7_Witness ==
  \E t \in Tasks :
    /\ task[t].op = "getPage" /\ task[t].pc = "done"
    /\ task[t].ret.kind = "error"
    /\ task[t].pre.grids # EmptyObj

(***************************************************************************)
(* Properties of fetchGrids.                                               *)
(***************************************************************************)
Least(I) == CHOOSE i \in I : \A j \in I : i <= j

\* C2: a fetchGrids call for an app id that has no entry in the search cache
\* makes exactly one searchGame call and, once completed, has stored the
\* candidate list; the entry stays as first stored, and every later
\* (non-overlapping) call for that id makes no searchGame call and works on
\* that same list, also when the list is empty.
C2_SearchOnce ==
  /\ \A k \in DOMAIN searched :
       k \in DOMAIN steamGridSearchCache /\ steamGridSearchCache[k] = searched[k]
  /\ \A t \in Tasks :
       LET fr == task[t]
           k == ToStr(fr.appId)
       IN  fr.op = "fetchGrids" =>
             IF k \in DOMAIN fr.pre.search
               THEN /\ fr.nSearch = 0
                    /\ k \in DOMAIN searched
                    /\ fr.results = searched[k]
               ELSE /\ fr.nSearch = 1
                    /\ (fr.pc = "done" /\ fr.ret.kind = "ok") =>
                         /\ k \in DOMAIN steamGridSearchCache
                         /\ steamGridSearchCache[k] = fr.results

\* A later call completed without searching, on an empty cached list.
C2_Witness ==
  \E t \in Tasks :
    /\ task[t].op = "fetchGrids" /\ task[t].pc = "done"
    /\ ToStr(task[t].appId) \in DOMAIN task[t].pre.search
    /\ task[t].pre.search[ToStr(task[t].appId)] = <<>>
    /\ task[t].nSearch = 0
    /\ task[t].ret.kind = "ok"

\* C3: on the Steam platform, a completed fetchGrids call that started with
\* all caches empty and found candidates made exactly one searchGame, one
\* getGameBySteamAppId and one page fetch, set selectedSteamGridGameId to the
\* chosen candidate's id and returned the fetched list; the same call made
\* again with the same arguments and unchanged stores makes no gateway call
\* and returns the same list.
C3_EndToEndNative ==
  \A t \in Tasks :
    LET fr == task[t]
    IN  (fr.op = "fetchGrids" /\ fr.platform = STEAM) =>
          /\ ( /\ Cold(fr.pre) /\ fr.pc = "done" /\ fr.ret.kind = "ok"
               /\ fr.results # <<>> ) =>
                 /\ fr.nSearch = 1 /\ fr.nLookup = 1 /\ fr.nFetch = 1
                 /\ fr.chosen # <<>>
                 /\ selectedSteamGridGameId = ToStr(fr.chosen[1].id)
                 /\ fr.ret.val = fr.got
          /\ ( /\ fr.last.op = "fetchGrids" /\ fr.last.ret.kind = "ok"
               /\ fr.last.type = fr.type /\ fr.last.platform = fr.platform
               /\ fr.last.gameName = fr.gameName ) =>
                 /\ fr.nSearch = 0 /\ fr.nLookup = 0 /\ fr.nFetch = 0
                 /\ fr.pc = "done"
                 /\ fr.ret = fr.last.ret

\* The second of two identical calls, the first made on empty caches, has
\* returned the first one's non-empty list.
C3_Witness ==
  \E t \in Tasks :
    /\ task[t].op = "fetchGrids" /\ task[t].platform = STEAM
    /\ task[t].sel = Undefined
    /\ task[t].last.op = "fetchGrids" /\ task[t].last.cold
    /\ task[t].last.ret.kind = "ok" /\ task[t].last.ret.val # <<>>
    /\ task[t].pc = "done" /\ task[t].ret = task[t].last.ret

\* C4: on the Steam platform, without an explicit selection and with a
\* non-empty candidate list, the game whose page is fetched is the candidate
\* whose id is the provider id of the identity map (looked up or cached) if
\* there is one, and the first candidate otherwise.
C4_NativeResolution ==
  \A t \in Tasks :
    LET fr == task[t]
        M == { i \in 1 .. Len(fr.results) : ToStr(fr.results[i].id) = fr.gameId }
    IN  ( /\ fr.op = "fetchGrids" /\ fr.platform = STEAM /\ ~Truthy(fr.sel)
          /\ fr.results # <<>> /\ fr.gameId # Undefined ) =>
            /\ ToStr(fr.appId) \in DOMAIN steamGridSteamAppIdMap
            /\ fr.gameId = steamGridSteamAppIdMap[ToStr(fr.appId)]
            /\ fr.pc \in {"page", "done"}
            /\ fr.chosen # <<>>
            /\ IF M # {}
                 THEN ToStr(fr.chosen[1].id) = fr.gameId
                 ELSE fr.chosen[1] = fr.results[1]
            /\ \E i \in 1 .. Len(fr.results) : fr.chosen[1] = fr.results[i]
            /\ fr.id = fr.chosen[1].id

\* The provider id cached in the identity map picked a candidate that is not
\* the first.
C4_Witness ==
  \E t \in Tasks :
    /\ task[t].op = "fetchGrids" /\ task[t].platform = STEAM
    /\ ~Truthy(task[t].sel)
    /\ ToStr(task[t].appId) \in DOMAIN task[t].pre.idMap
    /\ task[t].chosen # <<>>
    /\ task[t].chosen[1] # task[t].results[1]
    /\ task[t].pc = "done" /\ task[t].ret.kind = "ok"

\* C5: on the non-Steam platform, without an explicit selection and with a
\* non-empty candidate list, the game whose page is fetched is the first
\* candidate whose name equals selectedGameName if there is one, and the
\* first candidate otherwise; and a non-Steam call never issues
\* getGameBySteamAppId nor touches the identity map.
C5_NonNativeResolution ==
  \A t \in Tasks :
    LET fr == task[t]
        M == { i \in 1 .. Len(fr.results) : fr.results[i].name = fr.gameName }
    IN  (fr.op = "fetchGrids" /\ fr.platform = NON_STEAM) =>
          /\ fr.nLookup = 0
          /\ fr.pc # "lookup"
          /\ steamGridSteamAppIdMap = fr.pre.idMap
          /\ ( /\ ~Truthy(fr.sel) /\ fr.results # <<>>
               /\ fr.pc \in {"page", "done"} ) =>
                 /\ fr.chosen # <<>>
                 /\ fr.chosen[1] = fr.results[IF M = {} THEN 1 ELSE Least(M)]
                 /\ fr.id = fr.chosen[1].id

\* The name picked the second of three candidates, the third having the
\* same name.
C5_Witness ==
  \E t \in Tasks :
    /\ task[t].op = "fetchGrids" /\ task[t].platform = NON_STEAM
    /\ ~Truthy(task[t].sel)
    /\ Len(task[t].results) = 3
    /\ task[t].chosen = << task[t].results[2] >>
    /\ task[t].results[3].name = task[t].gameName
    /\ task[t].pc = "done" /\ task[t].ret.kind = "ok"

\* C6: when the name search found no candidate for the app, a finished
\* fetchGrids call has returned the empty list, not an error, on either
\* platform and whatever the direct lookup answered.
C6_NoCandidatesIsEmptyResult ==
  \A t \in Tasks :
    LET fr == task[t]
        k == ToStr(fr.appId)
    IN  ( /\ fr.op = "fetchGrids" /\ fr.pc = "done"
          /\ k \in DOMAIN steamGridSearchCache
          /\ steamGridSearchCache[k] = <<>> ) =>
            fr.ret = Ok(<<>>)

(***************************************************************************)
(* SpecImage: non-overlapping getGridImage calls between which the user    *)
(* changes the art category.                                               *)
(***************************************************************************)
NextImage ==
  \/ \E appId \in AppIds, url \in ImageUrls : CallGetGridImage(1, appId, url)
  \/ JoinReturns(1)
  \/ ExistsReturns(1)
  \/ \E success \in BOOLEAN : DownloadReturns(1, success)
  \/ DownloadRaises(1)
  \/ Return(1)
  \/ \E ty \in UsedTypes : SetGridType(ty)

SpecImage == InitReady /\ [][NextImage]_vars

(***************************************************************************)
(* Properties of getGridImage.                                             *)
(***************************************************************************)
\* The local file of a call: the grids directory, the art category read at
\* entry, the last segment of the URL.
LocalFile(fr) == << "appcache", "grids", fr.type, fr.url[Len(fr.url)] >>

\* The download a finished call started has failed.
DownloadFailed(fr) ==
  /\ fr.op = "getGridImage" /\ fr.pc = "done" /\ fr.nDownload = 1
  /\ fr.got \in { << "failed" >>, << "raised" >> }

\* C8: when the download started by getGridImage has failed, by an
\* unsuccessful result or by a raised error, dowloadingGridId is null again
\* once the call has ended.
C8_SignalIdleAfterFailure ==
  \A t \in Tasks : DownloadFailed(task[t]) => dowloadingGridId = <<>>

\* C9: every path getGridImage returns names a file that exists when it is
\* returned; a failed download is surfaced instead.
C9_ReturnedPathExists ==
  \A t \in Tasks :
    LET fr == task[t]
    IN  (fr.op = "getGridImage" /\ fr.pc = "done") =>
          /\ fr.ret.kind = "ok" => fr.ret.val \in fsys
          /\ DownloadFailed(fr) => fr.ret.kind = "error"

\* C10: when the local file of (gridType, last segment of the URL) exists,
\* getGridImage starts no download, leaves dowloadingGridId and the file
\* system as they were and returns that path.
C10_ExistingFileIsServed ==
  \A t \in Tasks :
    LET fr == task[t]
    IN  (fr.op = "getGridImage" /\ LocalFile(fr) \in fr.pre.fsys) =>
          /\ fr.nDownload = 0
          /\ fr.pc # "download"
          /\ dowloadingGridId = fr.pre.signal
          /\ fsys = fr.pre.fsys
          /\ fr.pc = "done" => fr.ret = Ok(LocalFile(fr))

\* A call found its file on disk and returned it.
C10_Witness ==
  \E t \in Tasks :
    /\ task[t].op = "getGridImage" /\ task[t].pc = "done"
    /\ LocalFile(task[t]) \in task[t].pre.fsys
    /\ task[t].ret = Ok(LocalFile(task[t]))

(***************************************************************************)
(* SpecImages: getGridImage calls that overlap, as when several grid       *)
(* components load their image at once.                                    *)
(***************************************************************************)
NextImages ==
  \/ \E t \in Tasks, appId \in AppIds, url \in ImageUrls : CallGetGridImage(t, appId, url)
  \/ \E t \in Tasks : JoinReturns(t)
  \/ \E t \in Tasks : ExistsReturns(t)
  \/ \E t \in Tasks, success \in BOOLEAN : DownloadReturns(t, success)
  \/ \E t \in Tasks : DownloadRaises(t)
  \/ \E t \in Tasks : Return(t)
  \/ \E ty \in UsedTypes : SetGridType(ty)

SpecImages == InitReady /\ [][NextImages]_vars

\* C11: while the download a getGridImage call for app A has started is in
\* flight, dowloadingGridId holds A, whatever other getGridImage calls start
\* or finish meanwhile.
C11_SignalIdentifiesDownloader ==
  \A t \in Tasks :
    (task[t].op = "getGridImage" /\ task[t].pc = "download") =>
      dowloadingGridId = << task[t].appId >>

(***************************************************************************)
(* SpecUi: the user selects library entries and result pages while earlier *)
(* requests of the grids view are still in flight.                         *)
(***************************************************************************)
UiAnswers == { <<G5, G6, G7>> }

NextUi ==
  \/ \E t \in Tasks, appId \in AppIds : SelectGame(t, appId)
  \/ \E t \in Tasks, pg \in GridsPages : SelectPage(t, pg)
  \/ \E t \in Tasks, answer \in UiAnswers : SearchReturns(t, answer)
  \/ \E t \in Tasks : SearchRaises(t)
  \/ \E t \in Tasks : NumPagesReturns(t)
  \/ \E t \in Tasks, game \in LookupAnswers : LookupReturns(t, game)
  \/ \E t \in Tasks : LookupFails(t)
  \/ \E t \in Tasks, list \in GridsAnswers : PageFetchReturns(t, list)
  \/ \E t \in Tasks : PageFetchRaises(t)
  \/ \E t \in Tasks : UiShow(t)

SpecUi == InitReady /\ [][NextUi]_vars

\* C12: a list is assigned to the displayed grids only by the request that
\* was started last; the result of a request that has been superseded is
\* discarded.
C12_StaleResultsDiscarded ==
  [][ shown' # shown => shown'.seq = calls' ]_vars

(***************************************************************************)
(* SpecOverlap: fetchGrids calls for one app that overlap.                 *)
(***************************************************************************)
OverlapAnswers == { <<G5>>, <<G5, G6, G7>> }

NextOverlap ==
  \/ \E t \in Tasks, pg \in GridsPages : CallFetchGrids(t, 100, pg, Undefined)
  \/ \E t \in Tasks, answer \in OverlapAnswers : SearchReturns(t, answer)
  \/ \E t \in Tasks : SearchRaises(t)
  \/ \E t \in Tasks : NumPagesReturns(t)
  \/ \E t \in Tasks, game \in LookupAnswers : LookupReturns(t, game)
  \/ \E t \in Tasks : LookupFails(t)
  \/ \E t \in Tasks, list \in GridsAnswers : PageFetchReturns(t, list)
  \/ \E t \in Tasks : PageFetchRaises(t)
  \/ \E t \in Tasks : Return(t)

SpecOverlap == InitReady /\ [][NextOverlap]_vars

\* C13: the candidate list the search cache holds for an app id is the one
\* first stored for it, whatever fetchGrids calls follow or overlap.
C13_SearchEntryNeverReplaced ==
  \A appKey \in DOMAIN searched :
    /\ appKey \in DOMAIN steamGridSearchCache
    /\ steamGridSearchCache[appKey] = searched[appKey]

\* C14: a completed fetchGrids call that fetched a page stored it in the
\* grid cache of its platform and left the other platform's grid cache as it
\* was: steamGridsCache when the platform is Steam, nonSteamGridsCache when
\* it is not.
C14_GridCachePerPlatform ==
  \A t \in Tasks :
    LET fr == task[t]
    IN  ( /\ fr.op = "fetchGrids" /\ fr.pc = "done"
          /\ fr.ret.kind = "ok" /\ fr.nFetch = 1 ) =>
          IF fr.platform = STEAM
            THEN /\ steamGridsCache # fr.pre.steam
                 /\ nonSteamGridsCache = fr.pre.grids
            ELSE /\ nonSteamGridsCache # fr.pre.grids
                 /\ InCache(nonSteamGridsCache, KeyOf(fr))
                 /\ steamGridsCache = fr.pre.steam

(***************************************************************************)
(* SpecLayout: sessions of the application.  Each constructs a controller  *)
(* on the disk the previous one left, loads images and is destroyed.  The  *)
(* first session finds a fresh disk, or the layout and a file of a session *)
(* that was not destroyed.                                                 *)
(***************************************************************************)
LeftOver == gridCacheDirPath \o << "Hero", "1.png" >>

InitLayout ==
  /\ nonSteamGridsCache = EmptyObj
  /\ steamGridsCache = EmptyObj
  /\ steamGridSearchCache = EmptyObj
  /\ steamGridSteamAppIdMap = EmptyObj
  /\ selectedSteamGridGameId = "None"
  /\ dowloadingGridId = <<>>
  /\ gridType = "Capsule"
  /\ currentPlatform = STEAM
  /\ selectedGameName = Null
  /\ fsys \in { {}, Layout \cup {LeftOver} }
  /\ task = [t \in Tasks |-> IdleTask]
  /\ calls = 0
  /\ stored = EmptyObj
  /\ searched = EmptyObj
  /\ written = EmptyObj
  /\ selectedGameAppId = NoApp
  /\ selectedResultPage = 0
  /\ uiGrids = <<>>
  /\ shown = NoneShown
  /\ isLoading = FALSE
  /\ ctl = NoCtl
  /\ candidates = <<>>
  /\ runs = <<>>

NextLayout ==
  \/ Construct
  \/ AppCacheDirReturns
  \/ JoinDirReturns
  \/ ExistsDirReturns
  \/ CreateDirReturns
  \/ (\A t \in Tasks : task[t].pc = "idle") /\ Destroy
  \/ RemoveDirReturns
  \/ /\ ctl.pc = "ready"
     /\ \E appId \in AppIds, url \in ImageUrls : CallGetGridImage(1, appId, url)
  \/ JoinReturns(1)
  \/ ExistsReturns(1)
  \/ \E success \in BOOLEAN : DownloadReturns(1, success)
  \/ DownloadRaises(1)
  \/ Return(1)

SpecLayout == InitLayout /\ [][NextLayout]_vars

\* init() is between its first and its last await.
Initializing == ctl.pc \in {"appCacheDir", "exists", "createDir", "join"}

\* C15: once invalidateCache has completed, the grids directory and all
\* below it are absent; once a following init() has completed, the grids
\* directory and its five category directories exist; and a step of init()
\* taken when the whole layout exists changes nothing on disk.
C15_InvalidateThenLayout ==
  /\ [](ctl.pc = "destroyed" => \A p \in fsys : ~Under(gridCacheDirPath, p))
  /\ [](ctl.pc = "ready" =>
          /\ gridCacheDirPath \in fsys
          /\ \A ty \in GridTypes : gridCacheDirPath \o << ty >> \in fsys)
  /\ [][ (Initializing /\ Layout \subseteq fsys) => fsys' = fsys ]_vars

\* A session has invalidated the cache and the next one has completed
\* init() on what was left.
C15_Witness ==
  /\ ctl.pc = "ready" /\ ctl.cleared
  /\ Layout \subseteq fsys

\* C16: two different URLs with the same final segment resolve to the same
\* local path under one art category; so when an earlier getGridImage call
\* has downloaded one of them, a call for the other under that category
\* starts no download and returns the path of the file the earlier call
\* wrote.
C16_BasenameCollision ==
  /\ \A u1 \in ImageUrls, u2 \in ImageUrls, ty \in GridTypes :
       u1[Len(u1)] = u2[Len(u2)] =>
         Join(gridCacheDirPath, << ty, FileName(u1) >>) =
           Join(gridCacheDirPath, << ty, FileName(u2) >>)
  /\ \A t \in Tasks :
       LET fr == task[t]
       IN  fr.op = "getGridImage" =>
             \A q \in DOMAIN fr.pre.written :
               LET w == fr.pre.written[q]
               IN  ( /\ w.url # fr.url
                     /\ w.url[Len(w.url)] = fr.url[Len(fr.url)]
                     /\ w.type = fr.type ) =>
                       /\ fr.nDownload = 0
                       /\ fr.pc # "download"
                       /\ fr.pc = "done" => fr.ret = Ok(q)

\* A call has returned the file that a download of another URL wrote.
C16_Witness ==
  \E t \in Tasks :
    /\ task[t].op = "getGridImage" /\ task[t].pc = "done"
    /\ task[t].ret.kind = "ok"
    /\ task[t].ret.val \in DOMAIN task[t].pre.written
    /\ task[t].pre.written[task[t].ret.val].url # task[t].url
    /\ task[t].pre.written[task[t].ret.val].type = task[t].type

(***************************************************************************)
(* SpecWalk: calls of cacheAllGridsForGame, one after the other.  The      *)
(* provider has non-empty pages up to page MaxPage at most.  Every awaited *)
(* gateway call settles and every settled promise is resumed.              *)
(***************************************************************************)
WalkInputs == { << Unmarked(G5) >>, << Unmarked(G5), Unmarked(G6) >> }

WalkProgress ==
  \/ \E t \in Tasks, list \in GridsAnswers :
       (list # <<>> => task[t].page <= MaxPage) /\ PageFetchReturns(t, list)
  \/ \E t \in Tasks : PageFetchRaises(t)
  \/ \E t \in Tasks : WalkResumes(t)
  \/ CacheAllReturns

NextWalk ==
  \/ \E results \in WalkInputs \cup {candidates} :
       /\ Len(results) > 0 /\ Len(runs) < MaxRuns
       /\ CallCacheAll(results, gridType)
  \/ WalkProgress

SpecWalk == InitReady /\ [][NextWalk]_vars /\ WF_vars(WalkProgress)

(***************************************************************************)
(* Properties of cacheAllGridsForGame.                                     *)
(***************************************************************************)
\* The non-empty pages the provider has returned so far for a game and type.
NonEmptyPages(id, type) ==
  { pg \in 0 .. MaxPage + 1 :
      << id, type, pg >> \in DOMAIN stored /\ stored[<< id, type, pg >>] # <<>> }

\* The walk of frame t has ended on an empty page / on a failed fetch.
EndedOnEmpty(t) ==
  task[t].op = "walk" /\ task[t].pc = "walked" /\ task[t].ret.kind = "ok"
EndedOnFailure(t) ==
  task[t].op = "walk" /\ task[t].pc = "walked" /\ task[t].ret.kind = "error"

\* C17: a walk started on an empty grid cache, to which the provider returned
\* N non-empty pages 0..N-1 and then an empty page N, has recorded N as the
\* game's numResultPages and has made exactly N+1 page fetches; and every
\* call of cacheAllGridsForGame returns.
C17_DiscoveryCountsPages ==
  /\ [](\A t \in Tasks :
          (EndedOnEmpty(t) /\ task[t].pre.grids = EmptyObj) =>
            LET N == Cardinality(NonEmptyPages(task[t].id, task[t].type))
            IN  /\ NonEmptyPages(task[t].id, task[t].type) = 0 .. N - 1
                /\ stored[<< task[t].id, task[t].type, N >>] = <<>>
                /\ candidates[t].numResultPages = N
                /\ task[t].nFetch = N + 1)
  /\ (Walking ~> ~Walking)

\* A walk on an empty cache has found at least one page and ended on an
\* empty one.
C17_Witness ==
  \E t \in Tasks :
    /\ EndedOnEmpty(t) /\ task[t].pre.grids = EmptyObj
    /\ candidates[t].numResultPages >= 1
    /\ task[t].nFetch = candidates[t].numResultPages + 1

\* C18: a walk whose fetch of page k failed has ended like one that got an
\* empty page: k is recorded as the game's numResultPages, no error leaves
\* the walk, and the walk of every other game ends on its own pages, with
\* the count of its own non-empty pages.
C18_FailureEndsWalk ==
  /\ \A t \in Tasks : task[t].pc # "threw"
  /\ \A t \in Tasks :
       EndedOnFailure(t) =>
         /\ candidates[t].numResultPages = task[t].page
         /\ NonEmptyPages(task[t].id, task[t].type) = 0 .. task[t].page - 1
         /\ << task[t].id, task[t].type, task[t].page >> \notin DOMAIN stored
         /\ \A u \in Tasks \ {t} :
              EndedOnEmpty(u) =>
                /\ candidates[u].numResultPages =
                     Cardinality(NonEmptyPages(task[u].id, task[u].type))
                /\ stored[<< task[u].id, task[u].type, task[u].page >>] = <<>>

\* A call has returned in which one walk failed on a page after the first
\* and the other walk found a page.
C18_Witness ==
  \E i \in 1 .. Len(runs) :
    /\ Len(runs[i].ids) = 2
    /\ \E j \in {1, 2} :
         /\ runs[i].failed[j] /\ runs[i].counts[j] >= 1
         /\ ~runs[i].failed[3 - j] /\ runs[i].counts[3 - j] >= 1

C20_PlaceholderPageCount ==
  /\ \A appKey \in DOMAIN steamGridSearchCache :
       \A i \in 1 .. Len(steamGridSearchCache[appKey]) :
         steamGridSearchCache[appKey][i].numResultPages = 3
  /\ ( /\ selectedGameAppId # NoApp /\ Truthy(selectedGameName)
       /\ ToStr(selectedGameAppId) \in DOMAIN steamGridSearchCache ) =>
       UiNumPages(steamGridSearchCache, selectedGameAppId,
                  selectedSteamGridGameId) = 3

(***************************************************************************)
(* SpecPages: direct calls of fetchGridsForNonSteamGame that overlap, as   *)
(* when the grids view asks for a page while an earlier request for the    *)
(* same game is still waiting for the gateway.  All calls are about the    *)
(* provider game 5.                                                        *)
(***************************************************************************)
NextPages ==
  \/ \E t \in Tasks, ty \in UsedTypes, pg \in Pages : CallGetPage(t, 5, ty, pg)
  \/ \E t \in Tasks, list \in GridsAnswers : PageFetchReturns(t, list)
  \/ \E t \in Tasks : PageFetchRaises(t)
  \/ \E t \in Tasks : Return(t)

SpecPages == InitReady /\ [][NextPages]_vars

\* The triples the model's calls can be about.
AllKeys == { << id, ty, pg >> : id \in AllIds, ty \in GridTypes, pg \in 0 .. MaxPage + 1 }

\* Frames 1 and 2 are two fetchGridsForNonSteamGame calls for one triple that
\* both started on the same grid cache, without the triple, and both ended
\* with a list.
PairDone ==
  /\ \A t \in Tasks :
       /\ task[t].op = "getPage" /\ task[t].pc = "done" /\ task[t].ret.kind = "ok"
       /\ ~InCache(task[t].pre.grids, KeyOf(task[t]))
  /\ KeyOf(task[1]) = KeyOf(task[2])
  /\ task[1].pre.grids = task[2].pre.grids

\* C21: two overlapping fetchGridsForNonSteamGame calls for the same triple,
\* absent from the grid cache when they started, have each made one gateway
\* fetch and returned its list; once both have ended the grid cache holds
\* for the triple the list of one of the two fetches (the list, when both
\* fetched the same), every entry that was there when they started is there
\* unchanged, and no other entry has appeared.
C21_OverlapRedundantNotCorrupting ==
  PairDone =>
    LET K == KeyOf(task[1])
        P == task[1].pre.grids
    IN  /\ \A t \in Tasks : task[t].nFetch = 1 /\ task[t].ret.val = task[t].got
        /\ InCache(nonSteamGridsCache, K)
        /\ Cached(nonSteamGridsCache, K) \in { task[1].got, task[2].got }
        /\ \A k \in AllKeys \ {K} :
             /\ InCache(P, k) =>
                  InCache(nonSteamGridsCache, k) /\ Cached(nonSteamGridsCache, k) = Cached(P, k)
             /\ InCache(nonSteamGridsCache, k) => InCache(P, k)

\* Both calls have ended on a cache that already held another category of
\* the same game.
C21_Witness ==
  /\ PairDone
  /\ task[1].branch = "type" /\ task[2].branch = "type"
  /\ task[1].got # <<>>
  /\ \E k \in AllKeys \ {KeyOf(task[1])} :
       k[1] = task[1].id /\ InCache(nonSteamGridsCache, k)

\* C23: the grid cache only grows: a page entry that is present stays
\* present, with the same list, over every step of every interleaving of
\* fetchGridsForNonSteamGame calls.
C23_GridCacheOnlyGrows ==
  [][ \A k \in AllKeys :
        InCache(nonSteamGridsCache, k) =>
          /\ InCache(nonSteamGridsCache', k)
          /\ Cached(nonSteamGridsCache', k) = Cached(nonSteamGridsCache, k) ]_vars

\* C22: the user of SpecUi never picks a provider game, so the candidate
\* every request of the grids view resolves is the one automatic resolution
\* gives (on Steam the candidate with the looked-up provider id, elsewhere
\* the first candidate with the entry's name, the first candidate when there
\* is none), whatever selectedSteamGridGameId held when the request started:
\* its initial "None" or the id published for the app shown before.
C22_LeftoverSelectionIgnored ==
  \A t \in Tasks :
    LET fr == task[t]
        M == IF fr.platform = STEAM
               THEN { i \in 1 .. Len(fr.results) : ToStr(fr.results[i].id) = fr.gameId }
               ELSE { i \in 1 .. Len(fr.results) : fr.results[i].name = fr.gameName }
    IN  (fr.outer = "ui" /\ fr.chosen # <<>>) =>
          fr.chosen[1] = fr.results[IF M = {} THEN 1 ELSE Least(M)]

\* A request of the grids view has been started and has not settled.
InFlight(t) == task[t].outer = "ui" /\ task[t].pc \notin {"idle", "done"}

\* C24: isLoading is true in every state in which a request started by a
\* subscriber of the grids view is in flight.
C24_LoadingWhileInFlight ==
  (\E t \in Tasks : InFlight(t)) => isLoading

(***************************************************************************)
(* SpecTeardown: sessions in which destroy() is called at any point after  *)
(* the constructor has returned, also while init() is still running.       *)
(***************************************************************************)
NextTeardown ==
  \/ Construct
  \/ AppCacheDirReturns
  \/ JoinDirReturns
  \/ ExistsDirReturns
  \/ CreateDirReturns
  \/ Destroy
  \/ DestroyEarly
  \/ RemoveDirReturns

SpecTeardown == InitLayout /\ [][NextTeardown]_vars

\* destroy() has been called and both it and init() have ended.
TornDown == ctl.pc = "destroyed" \/ (ctl.pc = "ready" /\ ctl.threw)

\* C25: destroy() ends without an error at whatever point after construction
\* it is called; and once init() and destroy() have both ended, the key
\* subscription is cancelled and the grids directory is absent.
C25_TeardownSafeDuringInit ==
  /\ ~ctl.threw
  /\ TornDown => ~ctl.subscribed /\ gridCacheDirPath \notin fsys

====
